---- MODULE Spec2Model ----
(***************************************************************************)
(* Referral-hierarchy backend (merkle_analysis): the user table with its   *)
(* nested-set (MPTT) numbering, the tree rebuild, the admin reparent, the  *)
(* CSV import scripts, the tree queries and the seller assignments.        *)
(*                                                                         *)
(* The numbering itself is computed by django-mptt, which the repository   *)
(* calls (objects.rebuild(), MPTTModel.save()).  The operators below that  *)
(* carry the library's names (rebuild, _rebuild_helper, _move_node, ...)   *)
(* transcribe what those calls do to the table; MODEL_MAP.json names the   *)
(* call site of each in the repository.                                    *)
(***************************************************************************)
EXTENDS Integers, Sequences, FiniteSets, TLC

\* ------------------------------------------------------------------ bounds
MaxNodes == 3          \* user rows (original_id 1..MaxNodes)
MaxName  == 2          \* distinct usernames, ordered as the integers 1..MaxName
MaxMoves == 2          \* subtree moves explored in one behaviour
MaxRuns  == 1          \* runs of the statement-by-statement rebuild task
MaxBeside == 1         \* subtree moves explored beside one run of the task
MaxCsv   == 2          \* rows of an imported users CSV
NumSellers == 6        \* seller accounts
MaxTreeDepth == 2      \* the greatest ?depth= asked of the tree endpoint
NumWallets == 2        \* wallets (platform, target_user_id) that are claimed

\* SellerAssignment.clean / ClaimWalletSerializer.validate: existing_count >= 5
MaxSellersPerWallet == 5

\* BoostyFiUserViewSet.roots: limit = min(int(query_params.get('limit', 50)), 200)
DefaultLimit == 50
MaxLimit == 200
DefaultSearchLimit == 20    \* search(): limit = min(int(limit or 20), 50)
MaxSearchLimit == 50

Ids   == 1..MaxNodes
Names == 1..MaxName
Null  == 0             \* parent_id IS NULL
Absent == MaxNodes + 1 \* a primary key no row has

VARIABLES
    tbl,     \* the BoostyFiUser table: id -> row
    last,    \* the last operation served and its outcome
    moves,   \* how many saves have moved a subtree so far
    rb,      \* the rebuild task under way: its position in TreeManager.rebuild()
    seen,    \* what the last tree query returned
    imp,     \* the import script under way: its CSV and its position
    asg,     \* the SellerAssignment table, for one wallet: the sellers holding it
    cpc      \* each seller's claim request: its position in the claim view

vars == <<tbl, last, moves, rb, seen, imp, asg, cpc>>

\* ------------------------------------------------------------- the table
\* One row: the hierarchy link, the sort key, and the four MPTT columns
\* (lft, rght, tree_id, level) that MPTTModel adds.
Row(p, u, l, r, t, d) ==
    [parent |-> p, username |-> u, lft |-> l, rght |-> r, tree_id |-> t, level |-> d]

\* quick_import creates every user with temporary MPTT values
\* (lft=0, rght=0, tree_id=original_id, level=0) and then bulk-updates parent_id.
TempRow(id, p, u) == Row(p, u, 0, 0, id, 0)

\* The row orders a database may use among rows that compare equal under
\* ORDER BY: one rank per row, any permutation.
TieOrders == {o \in [Ids -> 1..MaxNodes] : \A a, b \in Ids : a # b => o[a] # o[b]}
\* ... the same for a table whose rows are S
TieOrdersOf(S) ==
    {o \in [S -> 1..Cardinality(S)] : \A a, b \in S : a # b => o[a] # o[b]}

\* (an ordering by primary key alone, as without order_insertion_by)
ByPk(t, ord, a, b) == a < b

\* ORDER BY username: rows with equal username come in the order the
\* database happens to produce (ord).
ByUsername(t, ord, a, b) ==
    \/ t[a].username < t[b].username
    \/ t[a].username = t[b].username /\ ord[a] < ord[b]

RECURSIVE OrderByUsername(_, _, _)
OrderByUsername(S, t, ord) ==
    IF S = {} THEN <<>>
    ELSE LET m == CHOOSE x \in S : \A y \in S \ {x} : ByUsername(t, ord, x, y)
         IN  <<m>> \o OrderByUsername(S \ {m}, t, ord)

\* qs = self._mptt_filter(parent=None): the root rows
RootNodes(t) == {n \in DOMAIN t : t[n].parent = Null}
\* qs = self._mptt_filter(parent__pk=pk): the rows whose parent is pk
ChildrenOf(t, pk) == {n \in DOMAIN t : t[n].parent = pk}

\* ------------------------------------------------------------- rebuild
\* self._mptt_update(qs, left=.., right=.., level=.., tree_id=..) on the row pk
MpttUpdateNoRight(t, pk, left, right, lvl, tid) ==
    [t EXCEPT ![pk] = [@ EXCEPT !.lft = left, !.level = lvl, !.tree_id = tid]]

MpttUpdate(t, pk, left, right, lvl, tid) ==
    [t EXCEPT ![pk] = [@ EXCEPT !.lft = left, !.rght = right,
                                !.level = lvl, !.tree_id = tid]]

\* TreeManager._rebuild_helper(pk, left, tree_id, level): numbers the
\* children (ordered by order_insertion_by = ['username']) from left + 1,
\* then writes pk's own row and returns the next free number.
RECURSIVE RebuildHelper(_, _, _, _, _, _), RebuildChildren(_, _, _, _, _, _)
RebuildChildren(t, kids, right, tid, lvl, ord) ==
    IF kids = <<>> THEN [t |-> t, right |-> right]
    ELSE LET r == RebuildHelper(t, Head(kids), right, tid, lvl, ord)
         IN  RebuildChildren(r.t, Tail(kids), r.right, tid, lvl, ord)

RebuildHelper(t, pk, left, tid, lvl, ord) ==
    LET kids == OrderByUsername(ChildrenOf(t, pk), t, ord)
        r    == RebuildChildren(t, kids, left + 1, tid, lvl + 1, ord)
    IN  [t |-> MpttUpdate(r.t, pk, left, r.right, lvl, tid), right |-> r.right + 1]

\* TreeManager.rebuild(): the roots ordered by username get tree ids 1, 2, ...
\* and each is numbered from left = 1.  Rows that no root reaches (a cycle of
\* parent pointers, and what hangs below it) are never visited.
RECURSIVE RebuildRootsShifted(_, _, _, _)
\* (a walk whose counter starts at the tree's id instead of 1)
RebuildRootsShifted(t, pks, idx, ord) ==
    IF pks = <<>> THEN t
    ELSE RebuildRootsShifted(RebuildHelper(t, Head(pks), idx + 1, idx + 1, 0, ord).t,
                             Tail(pks), idx + 1, ord)

RECURSIVE RebuildRoots(_, _, _, _)
RebuildRoots(t, pks, idx, ord) ==
    IF pks = <<>> THEN t
    ELSE RebuildRoots(RebuildHelper(t, Head(pks), 1, idx + 1, 0, ord).t,
                      Tail(pks), idx + 1, ord)

\* (a rebuild whose tree ids start after 1)
RebuiltFromTwo(t, ord) == RebuildRoots(t, OrderByUsername(RootNodes(t), t, ord), 1, ord)

Rebuilt(t, ord) == RebuildRoots(t, OrderByUsername(RootNodes(t), t, ord), 0, ord)

\* ------------------------------------------------ parent-pointer walks
\* The chain of parents of n, followed at most MaxNodes steps.
RECURSIVE AncestorsByParent(_, _, _)
AncestorsByParent(t, n, fuel) ==
    IF fuel = 0 \/ t[n].parent = Null \/ t[n].parent \notin DOMAIN t THEN {}
    ELSE {t[n].parent} \cup AncestorsByParent(t, t[n].parent, fuel - 1)

Anc(t, n) == AncestorsByParent(t, n, Cardinality(DOMAIN t))
\* n lies on a cycle of parent pointers, or hangs below one
UnderCycle(t, n) == \A a \in Anc(t, n) \cup {n} : t[a].parent # Null
HasCycle(t) == \E n \in DOMAIN t : UnderCycle(t, n)
Acyclic(t) == ~HasCycle(t)
\* the strict descendants of n by a naive walk over parent pointers
DescByParent(t, n) == {m \in DOMAIN t : n \in Anc(t, m)}

\* ----------------------------------------------- reparent (MPTTModel.save)
\* Saving a user whose parent was changed (the admin's change form, the
\* import command's second pass) moves its subtree inside the numbering.
\* nd is the instance being saved: the row as it was loaded.

\* MPTTModel.get_descendant_count(): (right - left - 1) // 2
GetDescendantCount(r) == (r.rght - r.lft - 1) \div 2

\* MPTTModel.is_descendant_of(other, include_self=True), as MPTTAdminForm.clean
\* asks it of the chosen parent
IsDescendantOf(t, a, other) ==
    \/ a = other
    \/ /\ t[a].tree_id = t[other].tree_id
       /\ t[a].lft > t[other].lft
       /\ t[a].rght < t[other].rght

\* (a space made on the left column alone)
CreateSpaceLeftOnly(t, size, target, tid) ==
    [m \in DOMAIN t |->
        IF t[m].tree_id # tid THEN t[m]
        ELSE [t[m] EXCEPT !.lft = IF @ > target THEN @ + size ELSE @]]

\* TreeManager._create_space(size, target, tree_id)
CreateSpace(t, size, target, tid) ==
    [m \in DOMAIN t |->
        IF t[m].tree_id # tid THEN t[m]
        ELSE [t[m] EXCEPT
                !.lft  = IF @ > target THEN @ + size ELSE @,
                !.rght = IF @ > target THEN @ + size ELSE @]]

\* TreeManager._create_tree_space(target_tree_id)
CreateTreeSpace(t, target) ==
    [m \in DOMAIN t |->
        [t[m] EXCEPT !.tree_id = IF @ > target THEN @ + 1 ELSE @]]

\* TreeManager._inter_tree_move_and_close_gap(node, level_change,
\* left_right_change, new_tree_id): one UPDATE over the node's old tree
InterTreeMoveAndCloseGap(t, nd, levelChange, leftRightChange, newTreeId) ==
    LET left == nd.lft
        right == nd.rght
        gapSize == right - left + 1
        gapTargetLeft == left - 1
        In(x) == x >= left /\ x <= right
    IN  [m \in DOMAIN t |->
            IF t[m].tree_id # nd.tree_id THEN t[m]
            ELSE [t[m] EXCEPT
                    !.level   = IF In(t[m].lft) THEN @ - levelChange ELSE @,
                    !.tree_id = IF In(t[m].lft) THEN newTreeId ELSE @,
                    !.lft     = IF In(@) THEN @ - leftRightChange
                                ELSE IF @ > gapTargetLeft THEN @ - gapSize ELSE @,
                    !.rght    = IF In(@) THEN @ - leftRightChange
                                ELSE IF @ > gapTargetLeft THEN @ - gapSize ELSE @]]

\* the move values with a last child left at its target's level
InterTreeMoveValuesSameLevel(t, nd, target, position) ==
    LET spaceTarget == CASE position = "last-child" -> t[target].rght - 1
                         [] position = "left"       -> t[target].lft - 1
                         [] OTHER                   -> t[target].rght
    IN  [spaceTarget |-> spaceTarget, levelChange |-> nd.level - t[target].level,
         leftRightChange |-> nd.lft - spaceTarget - 1]

\* TreeManager._calculate_inter_tree_move_values(node, target, position)
InterTreeMoveValues(t, nd, target, position) ==
    LET spaceTarget == CASE position = "last-child" -> t[target].rght - 1
                         [] position = "left"       -> t[target].lft - 1
                         [] OTHER                   -> t[target].rght
        levelChange == IF position = "last-child"
                       THEN nd.level - t[target].level - 1
                       ELSE nd.level - t[target].level
    IN  [spaceTarget |-> spaceTarget, levelChange |-> levelChange,
         leftRightChange |-> nd.lft - spaceTarget - 1]

Moved(t, nd) == [ok |-> TRUE, t |-> t, nd |-> nd]
InvalidMove(t, nd) == [ok |-> FALSE, t |-> t, nd |-> nd]

\* TreeManager._make_child_root_node(node, new_tree_id)
MakeChildRootNode(t, nd, newTreeId) ==
    LET leftRightChange == nd.lft - 1
    IN  Moved(InterTreeMoveAndCloseGap(t, nd, nd.level, leftRightChange, newTreeId),
              [nd EXCEPT !.lft = nd.lft - leftRightChange,
                         !.rght = nd.rght - leftRightChange,
                         !.level = 0, !.tree_id = newTreeId])

\* TreeManager._make_sibling_of_root_node(node, target, position), for a
\* node that is a child node: the tree ids from the target's place on make
\* room for the new tree.
MakeSiblingOfRootNode(t, nd, target, position) ==
    LET targetTreeId == t[target].tree_id
        spaceTarget == IF position = "left" THEN targetTreeId - 1 ELSE targetTreeId
        newTreeId   == IF position = "left" THEN targetTreeId ELSE targetTreeId + 1
        t1  == CreateTreeSpace(t, spaceTarget)
        nd1 == IF nd.tree_id > spaceTarget
               THEN [nd EXCEPT !.tree_id = @ + 1] ELSE nd
    IN  MakeChildRootNode(t1, nd1, newTreeId)

\* TreeManager._move_root_node(node, target, position)
MoveRootNode(t, n, nd, target, position) ==
    IF n = target \/ nd.tree_id = t[target].tree_id THEN InvalidMove(t, nd)
    ELSE LET v == InterTreeMoveValues(t, nd, target, position)
             width == nd.rght - nd.lft + 1
             newTreeId == t[target].tree_id
             t1 == CreateSpace(t, width, v.spaceTarget, newTreeId)
             t2 == [m \in DOMAIN t1 |->
                      IF /\ t1[m].lft >= nd.lft /\ t1[m].lft <= nd.rght
                         /\ t1[m].tree_id = nd.tree_id
                      THEN [t1[m] EXCEPT !.level = @ - v.levelChange,
                                         !.lft = @ - v.leftRightChange,
                                         !.rght = @ - v.leftRightChange,
                                         !.tree_id = newTreeId]
                      ELSE t1[m]]
         IN  Moved(t2, [nd EXCEPT !.lft = @ - v.leftRightChange,
                                  !.rght = @ - v.leftRightChange,
                                  !.level = @ - v.levelChange,
                                  !.tree_id = newTreeId])

\* TreeManager._move_child_to_new_tree(node, target, position)
MoveChildToNewTree(t, nd, target, position) ==
    LET v == InterTreeMoveValues(t, nd, target, position)
        treeWidth == nd.rght - nd.lft + 1
        newTreeId == t[target].tree_id
        t1 == CreateSpace(t, treeWidth, v.spaceTarget, newTreeId)
    IN  Moved(InterTreeMoveAndCloseGap(t1, nd, v.levelChange, v.leftRightChange, newTreeId),
              [nd EXCEPT !.lft = @ - v.leftRightChange,
                         !.rght = @ - v.leftRightChange,
                         !.level = @ - v.levelChange,
                         !.tree_id = newTreeId])

\* TreeManager._move_child_within_tree(node, target, position)
MoveChildWithinTree(t, n, nd, target, position) ==
    LET left == nd.lft
        right == nd.rght
        width == right - left + 1
        targetLeft == t[target].lft
        targetRight == t[target].rght
        newLeft == IF position = "last-child"
                   THEN (IF targetRight > right THEN targetRight - width ELSE targetRight)
                   ELSE (IF targetLeft > left THEN targetLeft - width ELSE targetLeft)
        newRight == newLeft + width - 1
        levelChange == IF position = "last-child"
                       THEN nd.level - t[target].level - 1
                       ELSE nd.level - t[target].level
        leftBoundary == IF left < newLeft THEN left ELSE newLeft
        rightBoundary == IF right > newRight THEN right ELSE newRight
        leftRightChange == newLeft - left
        gapSize == IF leftRightChange > 0 THEN 0 - width ELSE width
        In(x) == x >= left /\ x <= right
        Between(x) == x >= leftBoundary /\ x <= rightBoundary
    IN  IF n = target \/ (left < targetLeft /\ targetLeft < right)
        THEN InvalidMove(t, nd)
        ELSE Moved(
               [m \in DOMAIN t |->
                  IF t[m].tree_id # nd.tree_id THEN t[m]
                  ELSE [t[m] EXCEPT
                          !.level = IF In(t[m].lft) THEN @ - levelChange ELSE @,
                          !.lft   = IF In(@) THEN @ + leftRightChange
                                    ELSE IF Between(@) THEN @ + gapSize ELSE @,
                          !.rght  = IF In(@) THEN @ + leftRightChange
                                    ELSE IF Between(@) THEN @ + gapSize ELSE @]],
               [nd EXCEPT !.lft = newLeft, !.rght = newRight,
                          !.level = @ - levelChange])

\* TreeManager._move_node(node, target, position).  The instance still
\* carries its old parent here, so is_root_node() speaks of the old place.
MoveNode(t, n, nd, target, position) ==
    IF t[target].parent = Null /\ position \in {"left", "right"}
    THEN MakeSiblingOfRootNode(t, nd, target, position)
    ELSE IF nd.parent = Null
    THEN MoveRootNode(t, n, nd, target, position)
    ELSE IF nd.tree_id = t[target].tree_id
    THEN MoveChildWithinTree(t, n, nd, target, position)
    ELSE MoveChildToNewTree(t, nd, target, position)

\* MPTTOptions.get_ordered_insertion_target(node, parent): the first row
\* under the new parent whose username is greater than the node's, by
\* (username, lft) under a parent and by (username, tree_id) among roots;
\* Null when there is none.
InsertionBefore(t, ord, p, a, b) ==
    LET ka == IF p = Null THEN t[a].tree_id ELSE t[a].lft
        kb == IF p = Null THEN t[b].tree_id ELSE t[b].lft
    IN  \/ t[a].username < t[b].username
        \/ t[a].username = t[b].username /\ ka < kb
        \/ t[a].username = t[b].username /\ ka = kb /\ ord[a] < ord[b]

OrderedInsertionTarget(t, n, p, ord) ==
    LET cand == {m \in DOMAIN t : /\ t[m].parent = p
                                  /\ t[m].username > t[n].username
                                  /\ m # n}
    IN  IF (p = Null \/ GetDescendantCount(t[p]) > 0) /\ cand # {}
        THEN CHOOSE x \in cand : \A y \in cand \ {x} : InsertionBefore(t, ord, p, x, y)
        ELSE Null

\* root_nodes.exclude(pk=self.pk).order_by('-tree_id')[0], Null when no other root
RightmostRoot(t, n, ord) ==
    LET roots == RootNodes(t) \ {n}
    IN  IF roots = {} THEN Null
        ELSE CHOOSE x \in roots : \A y \in roots \ {x} :
                \/ t[x].tree_id > t[y].tree_id
                \/ t[x].tree_id = t[y].tree_id /\ ord[x] < ord[y]

\* MPTTModel.save() of row n with its parent set to p (p # the stored parent):
\* the move, then the row written with the new parent.
SaveWithParent(t, n, p, ord) ==
    LET nd == t[n]
        rs == OrderedInsertionTarget(t, n, p, ord)
        rm == RightmostRoot(t, n, ord)
        r  == IF rs # Null THEN MoveNode(t, n, nd, rs, "left")
              ELSE IF p = Null
              THEN (IF rm = Null THEN Moved(t, nd) ELSE MoveNode(t, n, nd, rm, "right"))
              ELSE MoveNode(t, n, nd, p, "last-child")
    IN  IF r.ok
        THEN [ok |-> TRUE, t |-> [r.t EXCEPT ![n] = [r.nd EXCEPT !.parent = p]]]
        ELSE [ok |-> FALSE, t |-> t]

\* ---------------------------------------------------------------- queries
\* PostgreSQL's integer division: the quotient truncated toward zero
SqlDiv(x, y) == IF x >= 0 THEN x \div y ELSE 0 - ((0 - x) \div y)

\* BoostyFiUserViewSet.roots: tree_size = (F('rght') - F('lft') - 1) / 2
TreeSize(r) == SqlDiv(r.rght - r.lft - 1, 2)

\* ------------------------------------------------------------ operations
\* rebuild_tree_task / the import scripts' "Rebuild MPTT tree" step, run alone.
RebuildTask ==
    /\ \E ord \in TieOrdersOf(DOMAIN tbl) : tbl' = Rebuilt(tbl, ord)
    /\ last' = [op |-> "rebuild", outcome |-> "ok"]
    /\ UNCHANGED <<moves, rb, seen, imp, asg, cpc>>

\* BoostyFiUserAdmin's change form saved with the "parent" field set to p for
\* the user n.  An unknown user or an unknown choice of parent is refused by
\* the view and the form; MPTTAdminForm.clean refuses a parent that is the
\* user or lies inside the user's interval; the save raises InvalidMove for
\* what is left, and the request's transaction is rolled back.
AdminReparent(n, p) ==
    /\ UNCHANGED <<rb, seen, imp, asg, cpc>>
    /\ IF n \notin DOMAIN tbl \/ (p # Null /\ p \notin DOMAIN tbl)
       THEN /\ tbl' = tbl
            /\ last' = [op |-> "reparent", outcome |-> "NotFound"]
            /\ UNCHANGED moves
       ELSE IF p # Null /\ IsDescendantOf(tbl, p, n)
       THEN /\ tbl' = tbl
            /\ last' = [op |-> "reparent", outcome |-> "InvalidParent"]
            /\ UNCHANGED moves
       ELSE IF p = tbl[n].parent
       THEN /\ tbl' = tbl
            /\ last' = [op |-> "reparent", outcome |-> "unchanged"]
            /\ UNCHANGED moves
       ELSE \E ord \in TieOrders :
               LET r == SaveWithParent(tbl, n, p, ord)
               IN  /\ r.ok => moves < MaxMoves
                   /\ tbl' = r.t
                   /\ last' = [op |-> "reparent",
                               outcome |-> IF r.ok THEN "moved" ELSE "InvalidMove"]
                   /\ moves' = IF r.ok THEN moves + 1 ELSE moves

\* The table quick_import builds before its rebuild step: every user created
\* with the temporary MPTT values and parent_id bulk-updated from the CSV's
\* parent column, whatever pointers the CSV holds.
Loaded(par, un) == [n \in Ids |-> TempRow(n, par[n], un[n])]

\* No rebuild task, query, import or claim under way.
NoRebuild == [active |-> FALSE, roots |-> <<>>, idx |-> 0, stack |-> <<>>,
              pre |-> <<>>, m0 |-> 0, runs |-> 0]
NoCount   == -1   \* a serialized user without the children_count field
NoTree    == [id |-> Null, children_count |-> NoCount, children |-> <<>>]
NoQuery   == [op |-> "none", node |-> Null, size |-> 0, set |-> {}, list |-> <<>>,
              tree |-> NoTree, more |-> FALSE]
NoImport  == [script |-> "none", phase |-> "idle", clear |-> FALSE,
              csv |-> <<>>, pos |-> 0, before |-> <<>>]

Quiet ==
    /\ rb = NoRebuild
    /\ seen = NoQuery
    /\ imp = NoImport
    /\ asg = {}
    /\ cpc = <<>>

\* The service after quick_import has run over a CSV: the users loaded with
\* the CSV's parent pointers, whatever they are, and the tree rebuilt.
Init ==
    /\ \E par \in [Ids -> Ids \cup {Null}], un \in [Ids -> Names], ord \in TieOrders :
          tbl = Rebuilt(Loaded(par, un), ord)
    /\ last = [op |-> "rebuild", outcome |-> "ok"]
    /\ moves = 0
    /\ Quiet

Next ==
    \/ RebuildTask
    \/ \E n \in Ids \cup {Absent}, p \in Ids \cup {Null, Absent} : AdminReparent(n, p)

Spec == Init /\ [][Next]_vars

\* The rebuild step run on the table as loaded, cycles of parent pointers
\* included (quick_import and import_direct write parent_id unchecked).
InitLoad ==
    /\ \E par \in [Ids -> Ids \cup {Null}], un \in [Ids -> Names] :
          tbl = Loaded(par, un)
    /\ last = [op |-> "load", outcome |-> "ok"]
    /\ moves = 0
    /\ Quiet

NextLoad == RebuildTask

SpecLoad == InitLoad /\ [][NextLoad]_vars

\* ------------------------------------- the rebuild task, statement by statement
\* Neither rebuild_tree_task nor TreeManager.rebuild() opens a transaction or
\* takes a lock: every query and every UPDATE of the rebuild commits on its
\* own, and the admin and the API are served in between.

\* One activation of _rebuild_helper(pk, left, tree_id, level): right starts
\* at left + 1, kids are the children still to be numbered.
Frame(pk, left, tid, lvl, kids) ==
    [pk |-> pk, left |-> left, right |-> left + 1, tid |-> tid, lvl |-> lvl,
     kids |-> kids]

\* Python's recursion limit, which a chain of parent pointers this deep hits
MaxDepth == MaxNodes + 1

\* rebuild(): the root rows are selected, ordered by username
RebuildBegin ==
    /\ ~rb.active
    /\ rb.runs < MaxRuns
    /\ \E ord \in TieOrders :
          rb' = [active |-> TRUE,
                 roots  |-> OrderByUsername(RootNodes(tbl), tbl, ord),
                 idx    |-> 0,
                 stack  |-> <<>>,
                 pre    |-> tbl,
                 m0     |-> moves,
                 runs   |-> rb.runs + 1]
    /\ last' = [op |-> "rebuild", outcome |-> "running"]
    /\ UNCHANGED <<tbl, moves, seen, imp, asg, cpc>>

\* _rebuild_helper is entered for the next root or for the next child of the
\* activation on top: its children are selected, ordered by username.  A
\* chain deeper than the recursion limit ends the task with RecursionError.
RebuildEnter ==
    /\ rb.active
    /\ IF rb.stack = <<>> THEN rb.roots # <<>>
       ELSE rb.stack[Len(rb.stack)].kids # <<>>
    /\ \E ord \in TieOrders :
          LET d   == Len(rb.stack)
              pk  == IF d = 0 THEN Head(rb.roots) ELSE Head(rb.stack[d].kids)
              kids == OrderByUsername(ChildrenOf(tbl, pk), tbl, ord)
          IN  IF d >= MaxDepth
              THEN /\ rb' = [rb EXCEPT !.active = FALSE, !.roots = <<>>,
                                       !.stack = <<>>, !.pre = <<>>]
                   /\ last' = [op |-> "rebuild", outcome |-> "RecursionError"]
              ELSE /\ last' = last
                   /\ IF d = 0
                      THEN rb' = [rb EXCEPT
                                    !.roots = Tail(@),
                                    !.idx   = @ + 1,
                                    !.stack = <<Frame(pk, 1, rb.idx + 1, 0, kids)>>]
                      ELSE rb' = [rb EXCEPT
                                    !.stack = Append(
                                        [@ EXCEPT ![d].kids = Tail(@)],
                                        Frame(pk, rb.stack[d].right, rb.stack[d].tid,
                                              rb.stack[d].lvl + 1, kids))]
    /\ UNCHANGED <<tbl, moves, seen, imp, asg, cpc>>

\* the activation on top has numbered its children: it writes its own row
\* (_mptt_update) and returns right + 1 to its caller
RebuildWrite ==
    /\ rb.active
    /\ rb.stack # <<>>
    /\ rb.stack[Len(rb.stack)].kids = <<>>
    /\ LET d   == Len(rb.stack)
           top == rb.stack[d]
       IN  /\ tbl' = MpttUpdate(tbl, top.pk, top.left, top.right, top.lvl, top.tid)
           /\ rb' = [rb EXCEPT
                       !.stack = IF d = 1 THEN <<>>
                                 ELSE [SubSeq(@, 1, d - 1) EXCEPT
                                          ![d - 1].right = top.right + 1]]
    /\ UNCHANGED <<last, moves, seen, imp, asg, cpc>>

\* the last root is done: rebuild() returns and the task logs its success
RebuildEnd ==
    /\ rb.active
    /\ rb.stack = <<>>
    /\ rb.roots = <<>>
    /\ rb' = [rb EXCEPT !.active = FALSE, !.pre = <<>>]
    /\ last' = [op |-> "rebuild", outcome |-> "ok"]
    /\ UNCHANGED <<tbl, moves, seen, imp, asg, cpc>>

\* ------------------------------------------------------- the tree queries
\* MPTTModel.get_descendants(include_self=True): the row itself for a leaf,
\* else the rows of its tree_id with lft inside [lft, rght]
GetDescendants(t, n) ==
    IF GetDescendantCount(t[n]) = 0 THEN {n}
    ELSE {m \in DOMAIN t : /\ t[m].tree_id = t[n].tree_id
                           /\ t[m].lft >= t[n].lft
                           /\ t[m].lft <= t[n].rght}

\* MPTTModel.get_ancestors(include_self=True): the row itself for a root,
\* else the rows of its tree_id whose interval covers [lft, rght]
GetAncestors(t, n) ==
    IF t[n].parent = Null THEN {n}
    ELSE {m \in DOMAIN t : /\ t[m].tree_id = t[n].tree_id
                           /\ t[m].lft <= t[n].lft
                           /\ t[m].rght >= t[n].rght}

\* A queryset of BoostyFiUserManager without an order_by of its own:
\* BoostyFiUserManager.get_queryset returns a plain BoostyFiUserQuerySet, so
\* the rows come in Meta.ordering = ['original_id'].
RECURSIVE OrderedByOriginalId(_)
OrderedByOriginalId(S) ==
    IF S = {} THEN <<>>
    ELSE LET m == CHOOSE x \in S : \A y \in S \ {x} : x < y
         IN  <<m>> \o OrderedByOriginalId(S \ {m})

\* GET /users/{id}/: team_size from get_descendant_count(), team_volume over
\* the queryset get_descendants(include_self=True), whose rows are listed
\* (a retrieve that writes to the row it reads)
RetrieveAndTouch(n) ==
    /\ n \in DOMAIN tbl
    /\ seen' = [op |-> "retrieve", node |-> n,
                size |-> GetDescendantCount(tbl[n]),
                set |-> GetDescendants(tbl, n),
                list |-> OrderedByOriginalId(GetDescendants(tbl, n)),
                tree |-> NoTree, more |-> FALSE]
    /\ tbl' = [tbl EXCEPT ![n].level = 0]
    /\ UNCHANGED <<last, moves, rb, imp, asg, cpc>>

Retrieve(n) ==
    /\ n \in DOMAIN tbl
    /\ seen' = [op |-> "retrieve", node |-> n,
                size |-> GetDescendantCount(tbl[n]),
                set |-> GetDescendants(tbl, n),
                list |-> OrderedByOriginalId(GetDescendants(tbl, n)),
                tree |-> NoTree, more |-> FALSE]
    /\ UNCHANGED <<tbl, last, moves, rb, imp, asg, cpc>>

\* the rows S as a result list: every order of them
SeqsOf(S) ==
    {q \in [1..Cardinality(S) -> S] : \A i, j \in 1..Cardinality(S) : i # j => q[i] # q[j]}

\* qs.order_by('lft'): ascending lft, rows with equal lft in any order
OrderedByLeft(t, S) ==
    {q \in SeqsOf(S) : \A i, j \in 1..Cardinality(S) : i < j => t[q[i]].lft <= t[q[j]].lft}

\* GET /users/{id}/ancestors/: the path from the root to the user,
\* get_ancestors(include_self=True) in its order_by('lft')
Ancestors(n) ==
    /\ n \in DOMAIN tbl
    /\ \E path \in OrderedByLeft(tbl, GetAncestors(tbl, n)) :
          seen' = [op |-> "ancestors", node |-> n,
                   size |-> Cardinality(GetAncestors(tbl, n)),
                   set |-> GetAncestors(tbl, n),
                   list |-> path,
                   tree |-> NoTree, more |-> FALSE]
    /\ UNCHANGED <<tbl, last, moves, rb, imp, asg, cpc>>

\* ... .order_by('-tree_size', 'original_id'): a before b in the root listing
RootsBefore(t, a, b) ==
    \/ TreeSize(t[a]) > TreeSize(t[b])
    \/ TreeSize(t[a]) = TreeSize(t[b]) /\ a < b

\* (a root listing by original_id alone)
RootsOrderById(t, S) ==
    [i \in 1..Cardinality(S) |->
        CHOOSE x \in S : Cardinality({y \in S : y < x}) = i - 1]

\* the queryset of roots(): filter(parent__isnull=True) annotated with
\* tree_size and ordered by it, largest first, then by original_id
\* (each row's number of rows before it, then the row at each place; @@ <<>>
\* has both functions computed once)
RootsOrder(t, S) ==
    LET before == [x \in S |-> Cardinality({y \in S : RootsBefore(t, y, x)})] @@ <<>>
    IN  [i \in 1..Cardinality(S) |-> CHOOSE x \in S : before[x] = i - 1] @@ <<>>

Min(a, b) == IF a < b THEN a ELSE b

\* the page sizes and offsets asked for: one row, the default, more than
\* the cap
Limits == {1, DefaultLimit, MaxLimit + 1}
Offsets == {0, 1}

\* MPTTModel.get_children(): none for a leaf (get_descendant_count() = 0),
\* else the rows whose parent is n
GetChildren(t, n) ==
    IF GetDescendantCount(t[n]) = 0 THEN {} ELSE ChildrenOf(t, n)

\* obj.get_children().annotate_tree_fields() as a list.  get_children() sets
\* no order and BoostyFiUserManager.get_queryset drops the order_by(tree_id,
\* lft) of TreeManager; Meta.ordering = ['original_id'] is all that is left,
\* and Django 3.1 and later ignore it in a query that aggregates: the rows
\* come in original_id order or in whatever order the database produces.
ChildrenLists(t, n) == SeqsOf(GetChildren(t, n))

\* children_count = IntegerField(read_only=True, default=0) of the tree
\* serializer: the annotation Count('children', distinct=True) of a row that
\* comes from annotate_tree_fields(); a row that does not (the user of the
\* tree endpoint, self.get_object()) has no such attribute and the field is
\* skipped
ChildrenCount(t, n, annotated) ==
    IF annotated THEN Cardinality(ChildrenOf(t, n)) ELSE NoCount

\* BoostyFiUserTreeSerializer(user, context = {max_depth, current_depth}).data:
\* the user with its children nested, [] once current_depth >= max_depth;
\* every structure the serializer can produce.  The children are always
\* annotated rows.
RECURSIVE TreeData(_, _, _, _, _), TreeDataList(_, _, _, _)
TreeData(t, n, max_depth, current_depth, annotated) ==
    IF current_depth >= max_depth
    THEN {[id |-> n, children_count |-> ChildrenCount(t, n, annotated),
           children |-> <<>>]}
    ELSE {[id |-> n, children_count |-> ChildrenCount(t, n, annotated),
           children |-> cs] :
             cs \in UNION {TreeDataList(t, q, max_depth, current_depth + 1) :
                              q \in ChildrenLists(t, n)}}

TreeDataList(t, q, max_depth, current_depth) ==
    IF Len(q) = 0 THEN {<<>>}
    ELSE {<<h>> \o r : h \in TreeData(t, q[1], max_depth, current_depth, TRUE),
                       r \in TreeDataList(t, Tail(q), max_depth, current_depth)}

\* the rows named in a nested structure
RECURSIVE TreeIds(_)
TreeIds(d) ==
    {d.id} \cup UNION {TreeIds(d.children[i]) : i \in DOMAIN d.children}

\* GET /users/{id}/tree/?depth=max_depth
Tree(n, max_depth) ==
    /\ n \in DOMAIN tbl
    /\ \E data \in TreeData(tbl, n, max_depth, 0, FALSE) :
          seen' = [op |-> "tree", node |-> n, size |-> max_depth,
                   set |-> TreeIds(data), list |-> <<>>, tree |-> data,
                   more |-> FALSE]
    /\ UNCHANGED <<tbl, last, moves, rb, imp, asg, cpc>>

\* (a page size taken as it is asked for)
PageLimitUncapped(limit) == limit

\* limit = min(int(limit), 200)
PageLimit(limit) == Min(limit, MaxLimit)

\* 'results' of roots() asked without depth (max_depth = 0): the rows of the
\* page serialized, each annotated and with no children listed
RootsData(t, page) ==
    [i \in DOMAIN page |->
        CHOOSE d \in TreeData(t, page[i], 0, 0, TRUE) : TRUE] @@ <<>>

\* GET /users/roots/?limit=..&offset=..: the root users, largest tree first,
\* cut to roots[offset:offset + limit]; total is the count of all roots and
\* has_more is offset + limit < total
Roots(limit, offset) ==
    /\ \E roots \in {RootsOrder(tbl, RootNodes(tbl))}, lim \in {PageLimit(limit)} :
          \E page \in {SubSeq(roots, offset + 1, Min(offset + lim, Len(roots)))} :
             seen' = [op |-> "roots", node |-> Null,
                      size |-> Len(roots),
                      set |-> {page[i] : i \in DOMAIN page},
                      list |-> page,
                      tree |-> [NoTree EXCEPT !.children = RootsData(tbl, page)],
                      more |-> offset + lim < Len(roots)]
    /\ UNCHANGED <<tbl, last, moves, rb, imp, asg, cpc>>

\* The admin's change form saved while the rebuild task is running: nothing
\* in the task or in the admin makes either wait for the other.
ReparentDuringRebuild(n, p) ==
    /\ rb.active
    /\ moves - rb.m0 < MaxBeside
    /\ AdminReparent(n, p)

\* The service after an import of a CSV whose parent pointers form a forest,
\* with the rebuild task started and the admin and the API served beside it.
InitConc ==
    /\ \E par \in [Ids -> Ids \cup {Null}], un \in [Ids -> Names], ord \in TieOrders :
          /\ Acyclic(Loaded(par, un))
          /\ tbl = Rebuilt(Loaded(par, un), ord)
    /\ last = [op |-> "rebuild", outcome |-> "ok"]
    /\ moves = 0
    /\ Quiet

NextConc ==
    \/ RebuildBegin
    \/ RebuildEnter
    \/ RebuildWrite
    \/ RebuildEnd
    \/ \E n \in Ids, p \in Ids \cup {Null} : ReparentDuringRebuild(n, p)
    \/ \E n \in Ids : Retrieve(n)
    \/ \E n \in Ids : Ancestors(n)

SpecConc == InitConc /\ [][NextConc]_vars

\* ------------------------------------------------------ the CSV imports
\* Three scripts load boostyfi_users.csv / the Limitless users CSV:
\*   import_csv   (management command): one @transaction.atomic method;
\*   quick_import (script): delete, bulk_create, bulk_update, rebuild, each
\*                committed as it is issued;
\*   import_direct (script): DELETE, one INSERT per row, the parent UPDATEs,
\*                rebuild, each committed as it is issued.
\* A CSV row carries id, parent_id (Null when blank) and username.  One
\* username throughout: no step of an import reads it, and rows of equal
\* username leave the rebuild's order to the database.
CsvRows == [id : Ids, parent : Ids \cup {Null}, username : {1}]
Csvs == UNION {[1..k -> CsvRows] : k \in 1..MaxCsv}

\* the table with no row
Empty == <<>>

\* the unique index on original_id refuses the second row of the same id
HasDuplicateIds(csv) ==
    \E i, j \in DOMAIN csv : i < j /\ csv[i].id = csv[j].id

\* parent_map[original_id] = parent_id, set by every row whose parent_id is
\* not blank; a later row of the same id overwrites the entry
RECURSIVE ParentMap(_, _)
ParentMap(csv, k) ==
    IF k = 0 THEN Empty
    ELSE IF csv[k].parent # Null
         THEN (csv[k].id :> csv[k].parent) @@ ParentMap(csv, k - 1)
         ELSE ParentMap(csv, k - 1)

\* the keys of parent_map in the order a dict yields them (first insertion)
RECURSIVE ParentKeys(_, _)
ParentKeys(csv, k) ==
    IF k = 0 THEN <<>>
    ELSE LET ks == ParentKeys(csv, k - 1)
         IN  IF csv[k].parent # Null /\ \A i \in DOMAIN ks : ks[i] # csv[k].id
             THEN Append(ks, csv[k].id)
             ELSE ks

\* user_map: the ids the CSV names
CsvIds(csv) == {csv[i].id : i \in DOMAIN csv}

\* the parent links the scripts write: those whose both ends are in user_map
Link(t, csv, id) ==
    LET pm == ParentMap(csv, Len(csv))
    IN  IF id \in DOMAIN pm /\ id \in CsvIds(csv) /\ pm[id] \in CsvIds(csv)
        THEN pm[id] ELSE t[id].parent

\* quick_import: BoostyFiUser(..., lft=0, rght=0, tree_id=original_id, level=0)
\* for every row, created in one bulk_create
QuickRows(csv) ==
    [id \in CsvIds(csv) |->
        LET i == CHOOSE k \in DOMAIN csv : csv[k].id = id
        IN  TempRow(id, Null, csv[i].username)]

\* import_direct: row idx inserted with lft = idx*2+1, rght = idx*2+2,
\* tree_id = idx+1, level = 0 (idx counted from 0)
DirectRow(csv, k) ==
    Row(Null, csv[k].username, (k - 1) * 2 + 1, (k - 1) * 2 + 2, k, 0)

\* the first step of quick_import and import_direct: the tables are emptied
ImportClear ==
    /\ imp.script \in {"quick_import", "import_direct"}
    /\ imp.phase = "start"
    /\ tbl' = Empty
    /\ imp' = [imp EXCEPT !.phase = "cleared"]
    /\ UNCHANGED <<last, moves, rb, seen, asg, cpc>>

\* quick_import: BoostyFiUser.objects.bulk_create(users, batch_size=500); a
\* CSV that repeats an id raises IntegrityError and the script ends there
QuickBulkCreate ==
    /\ imp.script = "quick_import"
    /\ imp.phase = "cleared"
    /\ IF HasDuplicateIds(imp.csv)
       THEN /\ tbl' = tbl
            /\ imp' = [imp EXCEPT !.phase = "failed"]
       ELSE /\ tbl' = QuickRows(imp.csv)
            /\ imp' = [imp EXCEPT !.phase = "created"]
    /\ UNCHANGED <<last, moves, rb, seen, asg, cpc>>

\* import_direct: the INSERT of the next row; the row that repeats an id
\* raises IntegrityError and the script ends there
DirectInsertRow ==
    /\ imp.script = "import_direct"
    /\ imp.phase = "cleared"
    /\ LET k == imp.pos + 1
       IN  IF k > Len(imp.csv)
           THEN /\ tbl' = tbl
                /\ imp' = [imp EXCEPT !.phase = "created"]
           ELSE IF imp.csv[k].id \in DOMAIN tbl
           THEN /\ tbl' = tbl
                /\ imp' = [imp EXCEPT !.phase = "failed"]
           ELSE /\ tbl' = (imp.csv[k].id :> DirectRow(imp.csv, k)) @@ tbl
                /\ imp' = [imp EXCEPT !.pos = k]
    /\ UNCHANGED <<last, moves, rb, seen, asg, cpc>>

\* bulk_update(to_update, ['parent_id']) / the UPDATE ... SET parent_id loop
ImportSetParents ==
    /\ imp.script \in {"quick_import", "import_direct"}
    /\ imp.phase = "created"
    /\ tbl' = [id \in DOMAIN tbl |-> [tbl[id] EXCEPT !.parent = Link(tbl, imp.csv, id)]]
    /\ imp' = [imp EXCEPT !.phase = "linked"]
    /\ UNCHANGED <<last, moves, rb, seen, asg, cpc>>

\* objects.rebuild() as the scripts' last step on the users
ImportRebuild ==
    /\ imp.script \in {"quick_import", "import_direct"}
    /\ imp.phase = "linked"
    /\ \E ord \in TieOrders : tbl' = Rebuilt(tbl, ord)
    /\ imp' = [imp EXCEPT !.phase = "done"]
    /\ last' = [op |-> "rebuild", outcome |-> "ok"]
    /\ UNCHANGED <<moves, rb, seen, asg, cpc>>

\* import_csv, first pass: update_or_create(original_id=..., defaults=...)
\* for every row.  A row the table lacks is saved as a new root, in a tree
\* of its own after the last one; a row the table has keeps its place and
\* gets the CSV's username.
NextTreeId(t) ==
    IF DOMAIN t = {} THEN 1
    ELSE 1 + (CHOOSE m \in {t[n].tree_id : n \in DOMAIN t} :
                 \A o \in {t[n].tree_id : n \in DOMAIN t} : o <= m)

RECURSIVE FirstPass(_, _, _)
FirstPass(t, csv, k) ==
    IF k > Len(csv) THEN t
    ELSE IF csv[k].id \in DOMAIN t
    THEN FirstPass([t EXCEPT ![csv[k].id].username = csv[k].username], csv, k + 1)
    ELSE FirstPass((csv[k].id :> Row(Null, csv[k].username, 1, 2, NextTreeId(t), 0)) @@ t,
                   csv, k + 1)

\* import_csv, second pass: for every entry of parent_map with both ends in
\* user_map, user.parent = ...; user.save(update_fields=['parent']).  A save
\* that leaves the parent as stored moves nothing; a save that raises
\* InvalidMove ends the pass.  (Each instance is taken as it is stored when
\* its save runs.)
RECURSIVE SecondPass(_, _, _, _, _)
SecondPass(t, csv, keys, k, ord) ==
    IF k > Len(keys) THEN [ok |-> TRUE, t |-> t]
    ELSE LET id == keys[k]
             p  == ParentMap(csv, Len(csv))[id]
         IN  IF p \notin CsvIds(csv) \/ p = t[id].parent
             THEN SecondPass(t, csv, keys, k + 1, ord)
             ELSE LET r == SaveWithParent(t, id, p, ord)
                  IN  IF r.ok THEN SecondPass(r.t, csv, keys, k + 1, ord)
                      ELSE [ok |-> FALSE, t |-> t]

\* manage.py import_csv [--clear]: Command.import_boostyfi, a single
\* transaction: the clear, the two passes and the rebuild are committed
\* together, or an exception rolls all of them back.
ImportCsvCommand ==
    /\ imp.script = "import_csv"
    /\ imp.phase = "start"
    /\ \E ord \in TieOrders :
          LET t0 == IF imp.clear THEN Empty ELSE tbl
              t1 == FirstPass(t0, imp.csv, 1)
              r  == SecondPass(t1, imp.csv, ParentKeys(imp.csv, Len(imp.csv)), 1, ord)
          IN  IF r.ok
              THEN /\ tbl' = Rebuilt(r.t, ord)
                   /\ imp' = [imp EXCEPT !.phase = "done"]
                   /\ last' = [op |-> "rebuild", outcome |-> "ok"]
              ELSE /\ tbl' = tbl
                   /\ imp' = [imp EXCEPT !.phase = "failed"]
                   /\ last' = last
    /\ UNCHANGED <<moves, rb, seen, asg, cpc>>

\* The stores an import may find: none yet, or the users of an earlier import.
Stores ==
    {Empty} \cup
    {Rebuilt(Loaded(par, [n \in Ids |-> 1]), ord) :
        par \in {q \in [Ids -> Ids \cup {Null}] : Acyclic(Loaded(q, [n \in Ids |-> 1]))},
        ord \in TieOrders}

\* One of the scripts is started on a CSV.
InitImport ==
    /\ tbl \in Stores
    /\ \E sc \in {"import_csv", "quick_import", "import_direct"},
          cl \in BOOLEAN, csv \in Csvs :
          /\ cl => sc = "import_csv"
          /\ imp = [script |-> sc, phase |-> "start", clear |-> cl, csv |-> csv,
                    pos |-> 0, before |-> tbl]
    /\ last = [op |-> "none", outcome |-> "ok"]
    /\ moves = 0
    /\ rb = NoRebuild
    /\ seen = NoQuery
    /\ asg = {}
    /\ cpc = <<>>

NextImport ==
    \/ ImportCsvCommand
    \/ ImportClear
    \/ QuickBulkCreate
    \/ DirectInsertRow
    \/ ImportSetParents
    \/ ImportRebuild

SpecImport == InitImport /\ [][NextImport]_vars

\* --------------------------------------------------------------- C5
\* C5: a bulk import either commits all of its changes or, when a step
\* fails, leaves the stored forest as it was before the import started.
C5_AllOrNothing == imp.phase = "failed" => tbl = imp.before

\* an import script has ended on an error with the old users deleted and
\* one user of the CSV loaded
C5_Witness ==
    /\ imp.phase = "failed"
    /\ imp.before # Empty
    /\ Cardinality(DOMAIN tbl) = 1
    /\ tbl # imp.before

\* ------------------------------------------------- seller assignments
\* POST /assignments/claim/ and /unclaim/.  A wallet is a pair (platform,
\* target_user_id), here (boostyfi, w) for a user w.  An assignment row holds
\* the seller, the wallet and the seller's notes.  No view opens a
\* transaction or locks a row: each query below commits on its own and the
\* requests interleave, those of one seller included.
Sellers == 1..NumSellers
Wallets == 1..NumWallets
Wallet == 1
Notes == {1, 2}

\* a request in flight is numbered; requests above NumSellers are second
\* requests of the sellers 1, 2, ...
SellerOf(r) == IF r > NumSellers THEN r - NumSellers ELSE r

Idle == [at |-> "idle", wallet |-> Null, notes |-> Null]
At(r, at) == cpc[r].at = at

\* the rows of a wallet, and whether seller s has one
WalletRows(a, w) == {row \in a : row.wallet = w}
Holds(a, s, w) == \E row \in a : row.seller = s /\ row.wallet = w

\* (an INSERT into a table without the unique index)
InsertRowUnchecked(a, row) == [ok |-> TRUE, a |-> a \cup {row}]

\* INSERT INTO core_sellerassignment: unique_together (seller, platform,
\* target_user_id) refuses a second row of the seller for the wallet
InsertRow(a, row) ==
    IF Holds(a, row.seller, row.wallet) THEN [ok |-> FALSE, a |-> a]
    ELSE [ok |-> TRUE, a |-> a \cup {row}]

\* (a DELETE that leaves the seller out of its filter)
DeleteRowsOfWallet(a, s, w) == a \ WalletRows(a, w)

\* filter(seller=request.user, platform=.., target_user_id=..).delete()
DeleteRows(a, s, w) == {row \in a : ~(row.seller = s /\ row.wallet = w)}

Answer(op, outcome) == [op |-> op, outcome |-> outcome]

\* serializer.is_valid(): ClaimWalletSerializer.validate finds the target
\* user and counts the wallet's assignments; 400 when the user is missing or
\* there are 5 or more
ClaimValidate(r, w, notes) ==
    /\ At(r, "idle")
    /\ IF w \notin DOMAIN tbl
       THEN cpc' = cpc /\ last' = Answer("claim", "target_not_found")
       ELSE IF Cardinality(WalletRows(asg, w)) >= MaxSellersPerWallet
       THEN cpc' = cpc /\ last' = Answer("claim", "full")
       ELSE /\ cpc' = [cpc EXCEPT ![r] = [at |-> "validated", wallet |-> w, notes |-> notes]]
            /\ last' = last
    /\ UNCHANGED <<tbl, moves, rb, seen, imp, asg>>

\* serializer.save() -> create(): get_or_create looks the seller's row up;
\* "You have already claimed this wallet" when it is there
ClaimGet(r) ==
    /\ At(r, "validated")
    /\ IF Holds(asg, SellerOf(r), cpc[r].wallet)
       THEN cpc' = [cpc EXCEPT ![r] = Idle] /\ last' = Answer("claim", "already_claimed")
       ELSE cpc' = [cpc EXCEPT ![r].at = "creating"] /\ last' = last
    /\ UNCHANGED <<tbl, moves, rb, seen, imp, asg>>

\* SellerAssignment.save() -> full_clean(): clean() counts the wallet's
\* assignments again, ValidationError when there are 5 or more; then
\* validate_unique() looks for a row of the seller for the wallet; either
\* error leaves get_or_create and becomes the 400 of the view
ClaimClean(r) ==
    /\ At(r, "creating")
    /\ IF Cardinality(WalletRows(asg, cpc[r].wallet)) >= MaxSellersPerWallet
       THEN cpc' = [cpc EXCEPT ![r] = Idle] /\ last' = Answer("claim", "full")
       ELSE IF Holds(asg, SellerOf(r), cpc[r].wallet)
       THEN cpc' = [cpc EXCEPT ![r] = Idle] /\ last' = Answer("claim", "exists")
       ELSE cpc' = [cpc EXCEPT ![r].at = "cleaned"] /\ last' = last
    /\ UNCHANGED <<tbl, moves, rb, seen, imp, asg>>

\* super().save(): the INSERT, and 201 Created; on IntegrityError
\* get_or_create fetches the row that is there and create() answers
\* "You have already claimed this wallet"
ClaimInsert(r) ==
    /\ At(r, "cleaned")
    /\ LET ins == InsertRow(asg, [seller |-> SellerOf(r), wallet |-> cpc[r].wallet,
                                  notes |-> cpc[r].notes])
       IN  /\ asg' = ins.a
           /\ last' = Answer("claim", IF ins.ok THEN "created" ELSE "already_claimed")
    /\ cpc' = [cpc EXCEPT ![r] = Idle]
    /\ UNCHANGED <<tbl, moves, rb, seen, imp>>

\* unclaim: SellerAssignment.objects.filter(seller=request.user, ...).delete();
\* 200 when a row was deleted, else 404 "Assignment not found"
Unclaim(r, w) ==
    /\ At(r, "idle")
    /\ asg' = DeleteRows(asg, SellerOf(r), w)
    /\ last' = Answer("unclaim", IF asg' # asg THEN "unclaimed" ELSE "not_found")
    /\ UNCHANGED <<tbl, moves, rb, seen, imp, cpc>>

\* The users imported, no wallet claimed, no request under way.
InitClaim ==
    /\ tbl = Rebuilt(Loaded([n \in Ids |-> Null], [n \in Ids |-> 1]), [n \in Ids |-> n])
    /\ last = [op |-> "rebuild", outcome |-> "ok"]
    /\ moves = 0
    /\ rb = NoRebuild
    /\ seen = NoQuery
    /\ imp = NoImport
    /\ asg = {}
    /\ cpc = [s \in Sellers |-> Idle]

\* every seller claims and unclaims the one wallet
NextClaim ==
    \E s \in Sellers :
        \/ ClaimValidate(s, Wallet, 1)
        \/ ClaimGet(s)
        \/ ClaimClean(s)
        \/ ClaimInsert(s)
        \/ Unclaim(s, Wallet)

SpecClaim == InitClaim /\ [][NextClaim]_vars

\* --------------------------------------------------------------- C9
\* C9: after any sequence of claim and unclaim requests, concurrent claims
\* by different sellers included, a wallet never has more than 5 seller
\* assignments.
C9_AtMostFive == Cardinality(asg) <= MaxSellersPerWallet

\* six sellers hold the wallet and no request is under way
C9_Witness ==
    /\ Cardinality(asg) = MaxSellersPerWallet + 1
    /\ \A s \in Sellers : At(s, "idle")

\* ------------------------------------------------- the numbering invariants
\* left < right on every row
LeftBeforeRight(t) == \A n \in DOMAIN t : t[n].lft < t[n].rght

\* a node with a parent P: same tree_id, P.left < left, right < P.right
ParentContains(t, n) ==
    LET P == t[n].parent
    IN  /\ t[P].tree_id = t[n].tree_id
        /\ t[P].lft < t[n].lft
        /\ t[n].rght < t[P].rght

Containment(t) == \A n \in DOMAIN t : t[n].parent # Null => ParentContains(t, n)

\* two rows of one tree_id: disjoint intervals, or one strictly inside the other
Nested(t) ==
    \A a, b \in DOMAIN t :
        (a # b /\ t[a].tree_id = t[b].tree_id) =>
            \/ t[a].rght < t[b].lft
            \/ t[b].rght < t[a].lft
            \/ (t[a].lft < t[b].lft /\ t[b].rght < t[a].rght)
            \/ (t[b].lft < t[a].lft /\ t[a].rght < t[b].rght)

\* root depth 0, child depth = parent depth + 1
Depths(t) ==
    \A n \in DOMAIN t :
        IF t[n].parent = Null THEN t[n].level = 0
        ELSE t[n].level = t[t[n].parent].level + 1

\* right - left is odd and (right - left - 1) / 2 counts the strict descendants
Sizes(t) ==
    \A n \in DOMAIN t :
        /\ (t[n].rght - t[n].lft) % 2 = 1
        /\ TreeSize(t[n]) = Cardinality(DescByParent(t, n))
        /\ GetDescendantCount(t[n]) = Cardinality(DescByParent(t, n))

\* no two rows share (left, right, tree_id)
UniqueIntervals(t) ==
    \A a, b \in DOMAIN t :
        a # b => <<t[a].lft, t[a].rght, t[a].tree_id>> # <<t[b].lft, t[b].rght, t[b].tree_id>>

Siblings(t, a, b) == a # b /\ t[a].parent # Null /\ t[a].parent = t[b].parent

\* the children of a parent lie along the left axis in ascending username order
SiblingsByUsername(t) ==
    \A a, b \in DOMAIN t :
        (Siblings(t, a, b) /\ t[a].lft < t[b].lft) => t[a].username <= t[b].username

\* ... and children with equal username in ascending id order
SiblingsByUsernameThenId(t) ==
    \A a, b \in DOMAIN t :
        (Siblings(t, a, b) /\ t[a].lft < t[b].lft) =>
            \/ t[a].username < t[b].username
            \/ t[a].username = t[b].username /\ a < b

Structure(t) ==
    /\ LeftBeforeRight(t) /\ Nested(t) /\ Containment(t)
    /\ Depths(t) /\ UniqueIntervals(t)

WellNumbered(t) == Structure(t) /\ SiblingsByUsername(t)
WellNumberedById(t) == Structure(t) /\ SiblingsByUsernameThenId(t)

AfterRebuild == last.op = "rebuild" /\ Acyclic(tbl)

\* --------------------------------------------------------------- C1
\* C1: after a full rebuild of an acyclic forest every node has left < right,
\* and every node with a parent P has P's tree_id, P.left < left and
\* right < P.right.
C1_RebuildContainment ==
    AfterRebuild => (LeftBeforeRight(tbl) /\ Containment(tbl))

\* a rebuild has run over a forest whose numbering earlier moves had changed,
\* and the forest has a chain of two parent links
C1_Witness ==
    /\ AfterRebuild /\ moves > 0
    /\ \E n \in DOMAIN tbl :
          tbl[n].parent # Null /\ tbl[tbl[n].parent].parent # Null

\* --------------------------------------------------------------- C2
\* C2: after a rebuild, right - left is odd on every node and
\* (right - left - 1) / 2, the roots endpoint's tree_size and the detail
\* view's team_size, equals the number of strict descendants found by the
\* walk over parent pointers.
C2_DescendantCount == last.op = "rebuild" => Sizes(tbl)

\* a rebuild has returned over parent pointers that hold a cycle, and a row
\* on the cycle reports a negative team_size
C2_Witness ==
    /\ last.op = "rebuild" /\ HasCycle(tbl)
    /\ \E n \in DOMAIN tbl : GetDescendantCount(tbl[n]) < 0

\* --------------------------------------------------------------- C3
IsReparent == last'.op = "reparent"

Numbering(r) == <<r.lft, r.rght, r.tree_id, r.level>>

\* C4: a rebuild over parent pointers that contain a cycle fails with
\* CycleDetected and leaves every row's left, right, tree_id and depth as
\* they were.
C4_CycleDetected ==
    [][(HasCycle(tbl) /\ RebuildTask) =>
          /\ last'.outcome = "CycleDetected"
          /\ \A n \in DOMAIN tbl : Numbering(tbl'[n]) = Numbering(tbl[n])
      ]_vars

\* a rebuild has returned normally over pointers that hold a cycle: a row
\* outside the cycle is renumbered, a row on the cycle keeps the import's
\* temporary values
C4_Witness ==
    /\ last = [op |-> "rebuild", outcome |-> "ok"]
    /\ \E n, m \in DOMAIN tbl :
          /\ UnderCycle(tbl, n) /\ tbl[n].lft = 0 /\ tbl[n].rght = 0
          /\ ~UnderCycle(tbl, m) /\ tbl[m].lft = 1 /\ tbl[m].rght > 1

\* --------------------------------------------------------------- C6
\* the table is neither as the running rebuild found it nor as a complete
\* rebuild of what it found leaves it
PartlyRenumbered ==
    /\ tbl # rb.pre
    /\ \A ord \in TieOrders : tbl # Rebuilt(rb.pre, ord)

\* C6: a query served while a rebuild is in progress (and no reparent has
\* been served beside it) reads either the complete numbering from before
\* the rebuild or the complete numbering it produces.
C6_NoPartialNumbering ==
    [][(/\ rb.active /\ moves = rb.m0
        /\ \E n \in Ids : Retrieve(n) \/ Ancestors(n))
          => ~PartlyRenumbered]_vars

\* a detail request served during the rebuild has returned a team that is
\* not the user's descendants by parent pointers
C6_Witness ==
    /\ rb.active /\ moves = rb.m0
    /\ seen.op = "retrieve"
    /\ seen.set # DescByParent(rb.pre, seen.node) \cup {seen.node}

\* --------------------------------------------------------------- C7
\* C7: a reparent issued while a rebuild is running is rejected or takes
\* effect only after the rebuild has completed: while the rebuild runs, no
\* reparent changes a row.
C7_NoInterleaving ==
    [][(rb.active /\ \E n \in Ids, p \in Ids \cup {Null} : AdminReparent(n, p))
          => tbl' = tbl]_vars

\* the rebuild has completed with a reparent served in its middle, and the
\* forest left breaks the numbering invariants
C7_Witness ==
    /\ ~rb.active /\ rb.runs > 0
    /\ last = [op |-> "rebuild", outcome |-> "ok"]
    /\ moves > rb.m0
    /\ Acyclic(tbl)
    /\ ~WellNumbered(tbl)

\* --------------------------------------------------------------- C8
Requests == (Ids \cup {Absent}) \X (Ids \cup {Null, Absent})

\* C8: a reparent of a node under itself or under one of its descendants (by
\* parent pointers) is rejected as an invalid reparent, and a reparent naming
\* an absent node is rejected as not found; either way no row changes.
C8_RejectedReparent ==
    [][\A rq \in Requests :
          AdminReparent(rq[1], rq[2]) =>
             /\ (rq[1] \notin DOMAIN tbl \/ (rq[2] # Null /\ rq[2] \notin DOMAIN tbl))
                   => (last'.outcome = "NotFound" /\ tbl' = tbl)
             /\ (/\ rq[1] \in DOMAIN tbl /\ rq[2] \in DOMAIN tbl
                 /\ rq[2] \in DescByParent(tbl, rq[1]) \cup {rq[1]})
                   => (last'.outcome \in {"InvalidParent", "InvalidMove"} /\ tbl' = tbl)
      ]_vars

\* a reparent has moved a node although the pointers held a cycle before it
C8_Witness ==
    /\ last.op = "reparent" /\ last.outcome = "moved"
    /\ HasCycle(tbl)

\* --------------------------------------------------------------- C10
\* the parent of a and b is a row the rebuild reaches from a root
Reached(t, n) == ~UnderCycle(t, n)

ScenarioParent == <<Null, 1, 1, 2>>
ScenarioIds == DOMAIN ScenarioParent

\* sort_key = id: every user's username is its id
ById == [n \in ScenarioIds |-> n]
\* every user has the same username
SameName == [n \in ScenarioIds |-> 1]

\* The table quick_import builds from a CSV of the users ScenarioIds before
\* its rebuild step, whatever parent pointers the CSV holds.
LoadedScenario(par, un) == [n \in DOMAIN par |-> TempRow(n, par[n], un[n])]

InitTree ==
    /\ \E par \in [ScenarioIds -> ScenarioIds \cup {Null}], un \in {ById, SameName} :
          tbl = LoadedScenario(par, un)
    /\ last = [op |-> "load", outcome |-> "ok"]
    /\ moves = 0
    /\ Quiet

NextTree ==
    \/ RebuildTask
    \/ \E n \in ScenarioIds : Retrieve(n)
    \/ \E n \in ScenarioIds : Ancestors(n)
    \/ \E limit \in Limits, offset \in Offsets : Roots(limit, offset)

SpecTree == InitTree /\ [][NextTree]_vars

\* The tree endpoint served after the four-user import has finished.
InitSubtree ==
    /\ \E par \in [ScenarioIds -> ScenarioIds \cup {Null}], un \in {ById, SameName},
          ord \in TieOrdersOf(ScenarioIds) :
          tbl = Rebuilt(LoadedScenario(par, un), ord)
    /\ last = [op |-> "rebuild", outcome |-> "ok"]
    /\ moves = 0
    /\ Quiet

NextSubtree == \E n \in ScenarioIds, max_depth \in 0..MaxTreeDepth : Tree(n, max_depth)

SpecSubtree == InitSubtree /\ [][NextSubtree]_vars

\* --------------------------------------------------------------- C11
\* the rows of the tree rooted at n: n and what hangs below it
TreeNodes(t, n) == DescByParent(t, n) \cup {n}

\* the children of n's parent that lie before n on the left axis
EarlierSiblings(t, n) ==
    {m \in ChildrenOf(t, t[n].parent) : m # n /\ t[m].lft < t[n].lft}

\* a pre-order walk with a counter from 1 per tree: a root has left 1, a first
\* child its parent's left + 1, a later child the right of the sibling before
\* it + 1, and every row closes at left + 2 x (its descendants) + 1
PreOrderNumbered(t) ==
    /\ \A n \in RootNodes(t) :
          t[n].lft = 1 /\ t[n].rght = 2 * Cardinality(TreeNodes(t, n))
    /\ \A n \in DOMAIN t :
          Reached(t, n) =>
             /\ t[n].rght = t[n].lft + 2 * Cardinality(DescByParent(t, n)) + 1
             /\ t[n].parent # Null =>
                   IF EarlierSiblings(t, n) = {}
                   THEN t[n].lft = t[t[n].parent].lft + 1
                   ELSE \E m \in EarlierSiblings(t, n) : t[n].lft = t[m].rght + 1

IsScenario(t) ==
    /\ DOMAIN t = ScenarioIds
    /\ \A n \in ScenarioIds : t[n].parent = ScenarioParent[n] /\ t[n].username = n

\* (left, right, depth) of nodes 1, 2, 3, 4 in the scenario's result
ScenarioLeftRightDepth == <<<<1, 8, 0>>, <<2, 5, 1>>, <<6, 7, 1>>, <<3, 4, 2>>>>

\* C11: a rebuild numbers each tree by a pre-order walk with a counter that
\* starts at 1 for that tree: every root gets left = 1 and right = 2 x (the
\* number of nodes of its tree), and the forest {1:null, 2:1, 3:1, 4:2} with
\* sort_key = id gets node 1 = (1, 8, depth 0), node 2 = (2, 5, 1),
\* node 4 = (3, 4, 2), node 3 = (6, 7, 1).
C11_PreOrder ==
    last.op = "rebuild" =>
        /\ PreOrderNumbered(tbl)
        /\ IsScenario(tbl) =>
              \A n \in ScenarioIds :
                 <<tbl[n].lft, tbl[n].rght, tbl[n].level>> = ScenarioLeftRightDepth[n]

\* the scenario's forest has been rebuilt
C11_Witness ==
    /\ last.op = "rebuild"
    /\ IsScenario(tbl)
    /\ tbl[4].lft = 3 /\ tbl[3].rght = 7

\* --------------------------------------------------------------- C12
\* C12: after a rebuild, two distinct rows with the same tree_id have
\* intervals [left, right] that are disjoint or strictly nested; none
\* partially overlap.
C12_NestedIntervals == last.op = "rebuild" => Nested(tbl)

\* import_direct has finished over a CSV with a self-parented user: the row
\* the rebuild never visited and a renumbered root hold the same interval of
\* the same tree_id
C12_Witness ==
    /\ imp.script = "import_direct" /\ imp.phase = "done"
    /\ last.op = "rebuild"
    /\ \E a, b \in DOMAIN tbl :
          /\ a # b /\ UnderCycle(tbl, a) /\ tbl[b].parent = Null
          /\ Numbering(tbl[a]) = Numbering(tbl[b])

\* --------------------------------------------------------------- C13
\* C13: after a rebuild every row without a parent has depth 0 and every row
\* with a parent has its parent's depth + 1.
C13_Depths == last.op = "rebuild" => Depths(tbl)

\* a rebuild has returned over a cycle of parent pointers: a row on it has
\* depth 0, as its parent has
C13_Witness ==
    /\ last = [op |-> "rebuild", outcome |-> "ok"]
    /\ \E n \in DOMAIN tbl :
          /\ UnderCycle(tbl, n)
          /\ tbl[n].level = 0 /\ tbl[tbl[n].parent].level = 0

\* --------------------------------------------------------------- C14
\* C14: rebuilding the same input (ids, parent pointers, sort keys) twice
\* yields identical left, right, tree_id and depth for every row, whatever
\* numbering was stored before: a rebuild of the table a rebuild has just
\* numbered leaves every row as it is.
C14_Deterministic ==
    [][(last.op = "rebuild" /\ RebuildTask) => tbl' = tbl]_vars

\* a rebuilt forest that one more rebuild of the same input can number
\* differently
C14_Witness ==
    /\ AfterRebuild
    /\ \E ord \in TieOrdersOf(DOMAIN tbl) : Rebuilt(tbl, ord) # tbl

\* --------------------------------------------------------------- C15
\* MPTTModel.get_descendants(include_self): nothing but the row itself for a
\* leaf (get_descendant_count() = 0), else the rows of its tree_id with lft
\* in [lft, rght], or in [lft + 1, rght - 1] without the row itself
GetDescendantsOf(t, n, include_self) ==
    IF GetDescendantCount(t[n]) = 0
    THEN (IF include_self THEN {n} ELSE {})
    ELSE LET left  == IF include_self THEN t[n].lft ELSE t[n].lft + 1
             right == IF include_self THEN t[n].rght ELSE t[n].rght - 1
         IN  {m \in DOMAIN t : /\ t[m].tree_id = t[n].tree_id
                               /\ t[m].lft >= left
                               /\ t[m].lft <= right}

\* (ancestors looked up across every tree_id)
GetAncestorsOfAnyTree(t, n, include_self) ==
    IF t[n].parent = Null
    THEN (IF include_self THEN {n} ELSE {})
    ELSE LET left  == IF include_self THEN t[n].lft ELSE t[n].lft - 1
             right == IF include_self THEN t[n].rght ELSE t[n].rght + 1
         IN  {m \in DOMAIN t : t[m].lft <= left /\ t[m].rght >= right}

\* MPTTModel.get_ancestors(include_self): nothing but the row itself for a
\* root (parent_id IS NULL), else the rows of its tree_id with lft <= lft and
\* rght >= rght, or lft <= lft - 1 and rght >= rght + 1 without the row itself
GetAncestorsOf(t, n, include_self) ==
    IF t[n].parent = Null
    THEN (IF include_self THEN {n} ELSE {})
    ELSE LET left  == IF include_self THEN t[n].lft ELSE t[n].lft - 1
             right == IF include_self THEN t[n].rght ELSE t[n].rght + 1
         IN  {m \in DOMAIN t : /\ t[m].tree_id = t[n].tree_id
                               /\ t[m].lft <= left
                               /\ t[m].rght >= right}

\* every invariant of the data model holds of the table
Invariants(t) == WellNumbered(t) /\ Sizes(t)

\* C15: in a forest that satisfies the numbering invariants, for all rows A
\* and B and either setting of include_self, B is among the descendants of A
\* exactly when A is among the ancestors of B.
C15_DescendantsAncestors ==
    Invariants(tbl) =>
        \A A, B \in DOMAIN tbl, include_self \in BOOLEAN :
            B \in GetDescendantsOf(tbl, A, include_self)
                <=> A \in GetAncestorsOf(tbl, B, include_self)

\* the ancestors endpoint has returned a path of three rows in a forest that
\* satisfies the invariants
C15_Witness ==
    /\ Invariants(tbl)
    /\ seen.op = "ancestors" /\ Cardinality(seen.set) = 3
    /\ seen.set = GetAncestorsOf(tbl, seen.node, TRUE)
    /\ \A a \in seen.set : seen.node \in GetDescendantsOf(tbl, a, TRUE)

\* --------------------------------------------------------------- C16
\* the chain of parent pointers from n upwards, the topmost row first and n
\* last, followed at most fuel links
RECURSIVE ChainByParent(_, _, _)
ChainByParent(t, n, fuel) ==
    IF fuel = 0 \/ t[n].parent = Null \/ t[n].parent \notin DOMAIN t THEN <<n>>
    ELSE ChainByParent(t, t[n].parent, fuel - 1) \o <<n>>

PathFromRoot(t, n) == ChainByParent(t, n, Cardinality(DOMAIN t))

\* C16: after a rebuild, ancestors(id, include_self = true) returns exactly
\* the chain of parent pointers from the node up to its root, the root first
\* and the node last; on the forest {1:null, 2:1, 3:1, 4:2} ancestors(4) is
\* [1, 2, 4].
C16_AncestorsPath ==
    [][(last.op = "rebuild" /\ \E n \in DOMAIN tbl : Ancestors(n)) =>
          /\ seen'.list = PathFromRoot(tbl, seen'.node)
          /\ (IsScenario(tbl) /\ seen'.node = 4) => seen'.list = <<1, 2, 4>>
      ]_vars

\* the ancestors endpoint, after a rebuild over a cycle of parent pointers,
\* has returned a row on the cycle alone, without the parent it points to
C16_Witness ==
    /\ last = [op |-> "rebuild", outcome |-> "ok"]
    /\ seen.op = "ancestors"
    /\ UnderCycle(tbl, seen.node)
    /\ seen.list = <<seen.node>>
    /\ tbl[seen.node].parent # seen.node

\* --------------------------------------------------------------- C17
\* the rows of q lie in strictly ascending lft
AscendingLeft(t, q) ==
    \A i, j \in DOMAIN q : i < j => t[q[i]].lft < t[q[j]].lft

\* C17: after a rebuild, descendants(id, include_self) returns exactly the
\* rows reachable from the node by child links (and the node itself), in
\* ascending left order, the pre-order of the subtree.
C17_DescendantsPreOrder ==
    [][(last.op = "rebuild" /\ \E n \in DOMAIN tbl : Retrieve(n)) =>
          /\ seen'.set = TreeNodes(tbl, seen'.node)
          /\ AscendingLeft(tbl, seen'.list)
      ]_vars

\* on a rebuilt forest the descendants of a user are exactly its subtree, but
\* listed out of pre-order
C17_Witness ==
    /\ AfterRebuild /\ Invariants(tbl)
    /\ seen.op = "retrieve"
    /\ seen.set = TreeNodes(tbl, seen.node)
    /\ seen.set = GetDescendantsOf(tbl, seen.node, TRUE)
    /\ ~AscendingLeft(tbl, seen.list)

\* --------------------------------------------------------------- C18
\* Two trees of sizes 5 and 2: the users of the forest
ScenarioSizes == <<5, 2>>
ForestIds == 1..(ScenarioSizes[1] + ScenarioSizes[2])

\* The users ForestIds imported from a CSV in which every parent comes
\* before its children (parent id < id), username = id, and rebuilt.
RECURSIVE ParentsBefore(_)
ParentsBefore(k) ==
    IF k = 0 THEN {<<>>}
    ELSE {Append(q, p) : q \in ParentsBefore(k - 1), p \in 0..(k - 1)}

InitRoots ==
    /\ \E par \in ParentsBefore(ScenarioSizes[1] + ScenarioSizes[2]) :
          /\ tbl = Rebuilt(LoadedScenario(par, [n \in ForestIds |-> n]),
                           [n \in ForestIds |-> n])
    /\ last = [op |-> "rebuild", outcome |-> "ok"]
    /\ moves = 0
    /\ Quiet

NextRoots == \E limit \in Limits, offset \in Offsets : Roots(limit, offset)

SpecRoots == InitRoots /\ [][NextRoots]_vars

\* the roots a and b in the claim's order: more descendants first, then the
\* smaller id
ByDescendantsThenId(t, a, b) ==
    \/ Cardinality(DescByParent(t, a)) > Cardinality(DescByParent(t, b))
    \/ Cardinality(DescByParent(t, a)) = Cardinality(DescByParent(t, b)) /\ a < b

\* the forest is two trees, of 5 and of 2 rows
TwoTrees(t) ==
    \E a, b \in RootNodes(t) :
        /\ RootNodes(t) = {a, b}
        /\ Cardinality(TreeNodes(t, a)) = ScenarioSizes[1]
        /\ Cardinality(TreeNodes(t, b)) = ScenarioSizes[2]

\* C18: roots() returns exactly the rows that have no parent, ordered by
\* descendant count descending with ascending id as tie-break; on a forest
\* of two trees of sizes 5 and 2 the root of the tree of 5 comes first.
C18_RootsOrder ==
    [][\A limit \in Limits, offset \in Offsets :
          (/\ offset = 0 /\ limit >= Cardinality(RootNodes(tbl))
           /\ Roots(limit, offset)
           /\ Invariants(tbl)) =>
             /\ seen'.set = RootNodes(tbl)
             /\ Len(seen'.list) = Cardinality(RootNodes(tbl))
             /\ \A i, j \in DOMAIN seen'.list :
                   i < j => ByDescendantsThenId(tbl, seen'.list[i], seen'.list[j])
             /\ TwoTrees(tbl) =>
                   Cardinality(TreeNodes(tbl, seen'.list[1])) = ScenarioSizes[1]
      ]_vars

\* the listing of a forest of two trees of 5 and 2 rows, where the root of
\* the tree of 5 has the greater id and is listed first
C18_Witness ==
    /\ Invariants(tbl) /\ TwoTrees(tbl)
    /\ seen.op = "roots" /\ Len(seen.list) = 2
    /\ seen.list[1] > seen.list[2]
    /\ Cardinality(TreeNodes(tbl, seen.list[1])) = ScenarioSizes[1]

\* --------------------------------------------------------------- C19
\* the structure d is the subtree of d.id cut at max_depth: above max_depth
\* a row lists all of its children, in sibling order (ascending left);
\* at max_depth its children list is empty
RECURSIVE IsSubtree(_, _, _, _)
IsSubtree(t, d, max_depth, current_depth) ==
    IF current_depth >= max_depth
    THEN d.children = <<>>
    ELSE /\ {d.children[i].id : i \in DOMAIN d.children} = ChildrenOf(t, d.id)
         /\ Len(d.children) = Cardinality(ChildrenOf(t, d.id))
         /\ \A i, j \in DOMAIN d.children :
               i < j => t[d.children[i].id].lft < t[d.children[j].id].lft
         /\ \A i \in DOMAIN d.children :
               IsSubtree(t, d.children[i], max_depth, current_depth + 1)

\* C19: the tree endpoint with depth = max_depth returns a nested structure
\* of exactly the node and its descendants at most max_depth levels below
\* it: every row above level max_depth lists all of its children in sibling
\* order and every row at level max_depth has an empty children list.
C19_Subtree ==
    [][\A n \in DOMAIN tbl, max_depth \in 0..MaxTreeDepth :
          (/\ seen'.node = n /\ seen'.size = max_depth
           /\ Tree(n, max_depth)
           /\ Invariants(tbl)) =>
              IsSubtree(tbl, seen'.tree, max_depth, 0)
      ]_vars

\* on a forest that satisfies the invariants the tree endpoint has listed
\* two children of the user against their order on the left axis
C19_Witness ==
    /\ Invariants(tbl)
    /\ seen.op = "tree" /\ seen.size > 0
    /\ Len(seen.tree.children) = 2
    /\ {seen.tree.children[i].id : i \in {1, 2}} = ChildrenOf(tbl, seen.node)
    /\ tbl[seen.tree.children[1].id].lft > tbl[seen.tree.children[2].id].lft

\* --------------------------------------------------------------- C20
\* The table after the admin's change form has been saved with parent p for
\* the user n, and whether a subtree was moved: AdminReparent as a function
\* of the table and of the tie order the database uses.
Reparented(t, n, p, ord) ==
    IF n \notin DOMAIN t \/ (p # Null /\ p \notin DOMAIN t) THEN [ok |-> FALSE, t |-> t]
    ELSE IF p # Null /\ IsDescendantOf(t, p, n) THEN [ok |-> FALSE, t |-> t]
    ELSE IF p = t[n].parent THEN [ok |-> FALSE, t |-> t]
    ELSE SaveWithParent(t, n, p, ord)

\* X moved from its parent to Q and then back to the parent it had
ThereAndBack(t, X, Q, ord1, ord2) ==
    LET there == Reparented(t, X, Q, ord1)
        back  == Reparented(there.t, X, t[X].parent, ord2)
    IN  [ok |-> there.ok /\ back.ok, t |-> back.t]

\* t2 has X's depth, the depths of X's subtree and the subtree's left and
\* right offsets from X.left as t has them, and every parent pointer of t
Restored(t, t2, X) ==
    /\ \A n \in DOMAIN t : t2[n].parent = t[n].parent
    /\ \A m \in TreeNodes(t, X) :
          /\ t2[m].level = t[m].level
          /\ t2[m].lft - t2[X].lft = t[m].lft - t[X].lft
          /\ t2[m].rght - t2[X].lft = t[m].rght - t[X].lft

C21_DuplicateIdRejected ==
    HasDuplicateIds(imp.csv) =>
        /\ imp.phase # "done"
        /\ imp.phase = "failed" => tbl = imp.before

\* import_csv has completed on a CSV that names one id twice, and the
\* stored users are not those from before
C21_Witness ==
    /\ imp.script = "import_csv"
    /\ HasDuplicateIds(imp.csv)
    /\ imp.phase = "done"
    /\ tbl # imp.before

\* --------------------------------------------------------------- C22
\* More root users than the largest page holds: MaxLimit + 1 users without
\* a parent, username = id, as the rebuild numbers them (one tree each).
ManyIds == 1..(MaxLimit + 1)
ManyRoots == [n \in ManyIds |-> Row(Null, n, 1, 2, n, 0)]

\* The roots endpoint on no user at all, on the forests of an import, and
\* on more roots than a page holds.
InitPages ==
    /\ tbl \in Stores \cup {ManyRoots}
    /\ last = [op |-> "none", outcome |-> "ok"]
    /\ moves = 0
    /\ Quiet

NextPages == \E limit \in Limits, offset \in Offsets : Roots(limit, offset)

SpecPages == InitPages /\ [][NextPages]_vars

\* C22: a roots request returns at most min(limit, 200) roots, namely the
\* elements at positions offset .. offset + limit - 1 of the ordered root
\* list (limit as capped), reports total as the number of all roots and
\* has_more as true exactly when roots exist at offset + limit or beyond.
C22_RootsPage ==
    [][\A limit \in Limits, offset \in Offsets :
          (seen'.op = "roots" /\ Roots(limit, offset)) =>
             \A all \in {RootsOrder(tbl, RootNodes(tbl))}, lim \in {Min(limit, MaxLimit)} :
             LET \* positions counted from 0, as the claim counts them
                 Place(k) == all[k + 1]
                 InPage == {k \in 0..(Len(all) - 1) : offset <= k /\ k <= offset + lim - 1}
             IN  /\ Len(seen'.list) <= lim
                 /\ Len(seen'.list) = Cardinality(InPage)
                 /\ \A k \in InPage : seen'.list[k - offset + 1] = Place(k)
                 /\ seen'.size = Cardinality(RootNodes(tbl))
                 /\ seen'.more <=> \E k \in 0..(Len(all) - 1) : k >= offset + lim
      ]_vars

\* a request for more rows than the cap on a store of more roots than the
\* cap: a full page of MaxLimit roots from the second root on, none left
C22_Witness ==
    /\ seen.op = "roots"
    /\ Cardinality(RootNodes(tbl)) = MaxLimit + 1
    /\ Len(seen.list) = MaxLimit
    /\ seen.list[1] = 2
    /\ ~seen.more

\* --------------------------------------------------------------- C23
\* The other read endpoints of the viewset.

\* the search strings: Short for one of fewer than two characters, else a
\* string that one username contains
Short == 0
Queries == Names \cup {Short}
SearchLimits == {1, DefaultSearchLimit, MaxSearchLimit + 1}

\* GET /users/search/?q=..&limit=..: nothing for a short query, else the
\* users a column of which contains q, cut to [:limit] of a queryset that
\* sets no order
Search(q, limit) ==
    /\ LET found == IF q = Short THEN {}
                    ELSE {n \in DOMAIN tbl : tbl[n].username = q}
           lim   == Min(limit, MaxSearchLimit)
       IN  \E res \in SUBSET found :
              /\ Cardinality(res) = Min(lim, Cardinality(found))
              /\ seen' = [op |-> "search", node |-> q, size |-> Cardinality(res),
                          set |-> res, list |-> <<>>, tree |-> NoTree,
                          more |-> FALSE]
    /\ UNCHANGED <<tbl, last, moves, rb, imp, asg, cpc>>

\* GET /users/stats/: total_users and root_users (the sums over purchases
\* and earnings are not part of the model)
Stats ==
    /\ seen' = [op |-> "stats", node |-> Null, size |-> Cardinality(DOMAIN tbl),
                set |-> RootNodes(tbl), list |-> <<>>, tree |-> NoTree,
                more |-> FALSE]
    /\ UNCHANGED <<tbl, last, moves, rb, imp, asg, cpc>>

\* GET /users/: the users in the viewset's ordering = ['original_id']
List ==
    /\ seen' = [op |-> "list", node |-> Null, size |-> Cardinality(DOMAIN tbl),
                set |-> DOMAIN tbl, list |-> OrderedByOriginalId(DOMAIN tbl),
                tree |-> NoTree, more |-> FALSE]
    /\ UNCHANGED <<tbl, last, moves, rb, imp, asg, cpc>>

\* The API served on the users of an import, with the rebuild task run now
\* and then.
NextQueries ==
    \/ RebuildTask
    \/ \E n \in Ids : Retrieve(n)
    \/ \E n \in Ids : Ancestors(n)
    \/ \E n \in Ids, max_depth \in 0..MaxTreeDepth : Tree(n, max_depth)
    \/ \E limit \in Limits, offset \in Offsets : Roots(limit, offset)
    \/ \E q \in Queries, limit \in SearchLimits : Search(q, limit)
    \/ Stats
    \/ List

SpecQueries == Init /\ [][NextQueries]_vars

\* a step in which the API answers a request
QueryStep ==
    \/ seen'.op = "retrieve"  /\ Retrieve(seen'.node)
    \/ seen'.op = "ancestors" /\ Ancestors(seen'.node)
    \/ seen'.op = "tree"      /\ Tree(seen'.node, seen'.size)
    \/ seen'.op = "roots"     /\ \E limit \in Limits, offset \in Offsets : Roots(limit, offset)
    \/ seen'.op = "search"    /\ \E limit \in SearchLimits : Search(seen'.node, limit)
    \/ seen'.op = "stats"     /\ Stats
    \/ seen'.op = "list"      /\ List

\* C23: no query operation (roots, tree, ancestors, search, stats, list,
\* retrieve) changes a user's parent, left, right, tree_id or depth, or any
\* other stored record.
C23_QueriesReadOnly == [][QueryStep => (tbl' = tbl /\ asg' = asg)]_vars

\* a query has been answered on users the rebuild task has renumbered since
\* the import
C23_Witness ==
    /\ seen.op \in {"retrieve", "ancestors", "tree", "roots", "search", "stats", "list"}
    /\ last.op = "rebuild"
    /\ \E n \in DOMAIN tbl : tbl[n].level > 0

\* --------------------------------------------------------------- C24
\* Claims by a seller who sends two requests at a time (requests 1 and
\* NumSellers + 1 are seller 1's), for either wallet, on a store where some
\* sellers hold the first wallet already.
TwiceRequests == {1, NumSellers + 1}

\* seller 1 or not, and the sellers 3 .. k, hold the first wallet
Holdings ==
    {{[seller |-> s, wallet |-> Wallet, notes |-> 1] : s \in S \cup (3..k)} :
        S \in SUBSET {1}, k \in 2..NumSellers}

InitClaimTwice ==
    /\ tbl = Rebuilt(Loaded([n \in Ids |-> Null], [n \in Ids |-> 1]), [n \in Ids |-> n])
    /\ last = [op |-> "rebuild", outcome |-> "ok"]
    /\ moves = 0
    /\ rb = NoRebuild
    /\ seen = NoQuery
    /\ imp = NoImport
    /\ asg \in Holdings
    /\ cpc = [r \in TwiceRequests |-> Idle]

NextClaimTwice ==
    \E r \in TwiceRequests :
        \/ \E w \in Wallets, notes \in Notes : ClaimValidate(r, w, notes)
        \/ ClaimGet(r)
        \/ ClaimClean(r)
        \/ ClaimInsert(r)

SpecClaimTwice == InitClaimTwice /\ [][NextClaimTwice]_vars

\* at most one row per seller and wallet
OnePerSeller(a) ==
    \A x, y \in a : (x.seller = y.seller /\ x.wallet = y.wallet) => x = y

\* a step of the claim request r for the wallet w
ClaimStep(r, w) ==
    \/ \E notes \in Notes : ClaimValidate(r, w, notes)
    \/ cpc[r].wallet = w /\ (ClaimGet(r) \/ ClaimClean(r) \/ ClaimInsert(r))

\* the request r has been answered in this step
Answered(r) == cpc'[r].at = "idle" /\ last' # last

\* C24: a seller holds at most one assignment per (platform,
\* target_user_id); a claim by a seller who already holds the assignment
\* creates no row and changes none, also when the seller's two claims run
\* at the same time, and its answer is a rejection: already claimed, or the
\* model validation's "already exists", or "full" when the wallet has its 5
\* sellers.
C24_OneAssignment ==
    /\ []OnePerSeller(asg)
    /\ [][\A r \in DOMAIN cpc, w \in Wallets :
             (Holds(asg, SellerOf(r), w) /\ ClaimStep(r, w)) =>
                 /\ asg' = asg
                 /\ cpc'[r].at \notin {"creating", "cleaned"}
                 /\ Answered(r) =>
                       last'.outcome \in {"already_claimed", "exists", "full"}
       ]_vars

\* the claim as stated: the answer is always "already claimed"
C24_Original ==
    [][\A r \in DOMAIN cpc, w \in Wallets :
          (Holds(asg, SellerOf(r), w) /\ ClaimStep(r, w)) =>
              /\ asg' = asg
              /\ cpc'[r].at \notin {"creating", "cleaned"}
              /\ Answered(r) => last'.outcome = "already_claimed"
      ]_vars

\* seller 1's two claims for the second wallet ran side by side: one has
\* created the row, the other was refused by the unique index
C24_Witness ==
    /\ last = Answer("claim", "already_claimed")
    /\ \A r \in TwiceRequests : At(r, "idle")
    /\ Cardinality({row \in asg : row.seller = 1 /\ row.wallet = 2}) = 1
    /\ Cardinality(WalletRows(asg, Wallet)) < MaxSellersPerWallet

\* --------------------------------------------------------------- C25
\* the roots numbered 1, 2, 3, ... with no tree_id left out or repeated
SequentialTreeIds(t) ==
    /\ {t[r].tree_id : r \in RootNodes(t)} = 1..Cardinality(RootNodes(t))
    /\ \A a, b \in RootNodes(t) : a # b => t[a].tree_id # t[b].tree_id

\* every row below a root has the root's tree_id
TreeIdOfRoot(t) ==
    \A n \in DOMAIN t : \A r \in RootNodes(t) \cap Anc(t, n) :
        t[n].tree_id = t[r].tree_id

NoParentInCsv(csv, i) == csv[i].parent = Null \/ csv[i].parent \notin CsvIds(csv)

\* the row n is the root of a tree of its own
RootOfOwnTree(t, n) ==
    /\ t[n].parent = Null
    /\ t[n].level = 0
    /\ t[n].lft = 1
    /\ \A r \in RootNodes(t) \ {n} : t[r].tree_id # t[n].tree_id

\* C26: a node whose parent_id is null or does not resolve to an imported
\* node is stored with no parent and is numbered by the rebuild as the root
\* of its own tree: depth 0, left 1, a tree_id no other root has.  (Stated
\* for a CSV that names every id once.)
C26_UnresolvedIsRoot ==
    (imp.phase = "done" /\ ~HasDuplicateIds(imp.csv)) =>
        \A i \in DOMAIN imp.csv :
            NoParentInCsv(imp.csv, i) => RootOfOwnTree(tbl, imp.csv[i].id)

\* import_csv without --clear has completed and a user whose CSV row has no
\* parent_id is still stored below the parent it had
C26_Witness ==
    /\ imp.script = "import_csv" /\ ~imp.clear
    /\ imp.phase = "done" /\ ~HasDuplicateIds(imp.csv)
    /\ \E i \in DOMAIN imp.csv :
          /\ imp.csv[i].parent = Null
          /\ tbl[imp.csv[i].id].parent # Null
          /\ tbl[imp.csv[i].id].parent = imp.before[imp.csv[i].id].parent

\* --------------------------------------------------------------- C28
\* the parent the CSV gives the user of row i: the row's parent_id when that
\* id is among the rows, else none
CsvParent(csv, i) ==
    IF csv[i].parent \in CsvIds(csv) THEN csv[i].parent ELSE Null

\* C28: after the import command completes, with or without --clear, every
\* imported user's stored parent is the CSV's: the user of the row's
\* parent_id when that id is among the imported rows, and null otherwise,
\* also for users that existed with another parent before the import.
\* (Stated for a CSV that names every id once.)
C28_ParentsFromCsv ==
    (imp.script = "import_csv" /\ imp.phase = "done" /\ ~HasDuplicateIds(imp.csv)) =>
        \A i \in DOMAIN imp.csv :
            tbl[imp.csv[i].id].parent = CsvParent(imp.csv, i)

\* import_csv without --clear has completed on a CSV whose row names a
\* parent_id that is not among the rows, and the user is stored below
\* the parent it had before, which is another one
C28_Witness ==
    /\ imp.script = "import_csv" /\ ~imp.clear
    /\ imp.phase = "done" /\ ~HasDuplicateIds(imp.csv)
    /\ \E i \in DOMAIN imp.csv :
          /\ imp.csv[i].parent \notin CsvIds(imp.csv) \cup {Null}
          /\ tbl[imp.csv[i].id].parent \notin {Null, imp.csv[i].parent}

\* --------------------------------------------------------------- C27
\* The users of a referral chain longer than the recursion limit, with one
\* more user beside it
DeepIds == 1..(MaxDepth + 2)

\* rebuild_tree_task, or the rebuild step of import_direct, started on a
\* table as loaded and run to its end with nothing served beside it: the
\* users Ids with any parent pointers, cycles included, or the users
\* DeepIds with every parent before its children (username = id).
InitTask ==
    /\ \/ \E par \in [Ids -> Ids \cup {Null}], un \in [Ids -> Names] :
             tbl = Loaded(par, un)
       \/ \E par \in ParentsBefore(MaxDepth + 2) :
             tbl = LoadedScenario([n \in DeepIds |-> IF par[n] = 0 THEN Null ELSE par[n]],
                                  [n \in DeepIds |-> n])
    /\ last = [op |-> "load", outcome |-> "ok"]
    /\ moves = 0
    /\ Quiet

NextTask ==
    \/ RebuildBegin
    \/ RebuildEnter
    \/ RebuildWrite
    \/ RebuildEnd

\* the worker runs the task it has started: a statement that can be
\* executed is executed
SpecTask == InitTask /\ [][NextTask]_vars /\ WF_vars(NextTask)

\* the step in which the running rebuild stops
RebuildStops == rb.active /\ ~rb'.active

\* C27: a rebuild started on any finite set of users, parent pointers with
\* a cycle included, always stops, and when it stops either it has succeeded
\* and the table holds the numbering of a complete rebuild of the table it
\* started from, or it has failed and the table is the one it started from.
C27_RebuildEnds ==
    /\ rb.active ~> ~rb.active
    /\ [][RebuildStops =>
            IF last'.outcome = "ok"
            THEN \E ord \in TieOrdersOf(DOMAIN tbl) :
                    (ord \in TieOrders \/ \A n \in DOMAIN tbl : ord[n] = n)
                    /\ tbl' = Rebuilt(rb.pre, ord)
            ELSE tbl' = rb.pre]_vars

\* the rebuild has stopped with RecursionError below the root it numbered
\* second, after the first root's row was written
C27_Witness ==
    /\ ~rb.active
    /\ last = [op |-> "rebuild", outcome |-> "RecursionError"]
    /\ \E n \in RootNodes(tbl) : tbl[n].lft = 1 /\ tbl[n].rght = 2

\* --------------------------------------------------------------- C29
\* the serialized node d, met at depth current_depth of a response built
\* with max_depth, and every node nested in it: children_count is the number
\* of rows whose parent is the node, and above max_depth the children list
\* names exactly those rows, once each
RECURSIVE CountsChildren(_, _, _, _)
CountsChildren(t, d, max_depth, current_depth) ==
    /\ d.children_count = Cardinality(ChildrenOf(t, d.id))
    /\ current_depth < max_depth =>
          /\ {d.children[i].id : i \in DOMAIN d.children} = ChildrenOf(t, d.id)
          /\ Len(d.children) = d.children_count
    /\ \A i \in DOMAIN d.children :
          CountsChildren(t, d.children[i], max_depth, current_depth + 1)

\* C29: in every tree or roots response each serialized node's
\* children_count is the number of users whose parent is that node, and for
\* every node serialized above level max_depth the children list holds
\* exactly those users, so its length is children_count.
C29_ChildrenCounted ==
    /\ seen.op = "tree" => CountsChildren(tbl, seen.tree, seen.size, 0)
    /\ seen.op = "roots" =>
          \A i \in DOMAIN seen.tree.children :
              CountsChildren(tbl, seen.tree.children[i], 0, 0)

\* a tree response for a user with children, serialized with them, whose
\* own node carries no children_count
C29_Witness ==
    /\ seen.op = "tree" /\ seen.size >= 1
    /\ ChildrenOf(tbl, seen.node) # {}
    /\ {seen.tree.children[i].id : i \in DOMAIN seen.tree.children}
          = ChildrenOf(tbl, seen.node)
    /\ seen.tree.children_count = NoCount

\* --------------------------------------------------------------- C30
\* Two sellers claim and unclaim the two wallets, one request each at a time.
UnclaimRequests == {1, 2}

InitUnclaim ==
    /\ tbl = Rebuilt(Loaded([n \in Ids |-> Null], [n \in Ids |-> 1]), [n \in Ids |-> n])
    /\ last = [op |-> "rebuild", outcome |-> "ok"]
    /\ moves = 0
    /\ rb = NoRebuild
    /\ seen = NoQuery
    /\ imp = NoImport
    /\ asg = {}
    /\ cpc = [r \in UnclaimRequests |-> Idle]

NextUnclaim ==
    \E r \in UnclaimRequests :
        \/ \E w \in Wallets, notes \in Notes : ClaimValidate(r, w, notes)
        \/ ClaimGet(r)
        \/ ClaimClean(r)
        \/ ClaimInsert(r)
        \/ \E w \in Wallets : Unclaim(r, w)

SpecUnclaim == InitUnclaim /\ [][NextUnclaim]_vars

\* the row is seller s's assignment for the wallet w
AssignmentOf(row, s, w) == row.seller = s /\ row.wallet = w

\* C30: unclaim by seller S for a wallet (platform, target_user_id) removes
\* exactly S's assignment for it and leaves every other assignment, of other
\* sellers and for other wallets, as it was; when S holds no such assignment
\* the answer is not found and nothing changes.
C30_UnclaimExact ==
    [][\A r \in DOMAIN cpc, w \in Wallets :
          Unclaim(r, w) =>
              /\ \A row \in asg : row \in asg' <=> ~AssignmentOf(row, SellerOf(r), w)
              /\ asg' \subseteq asg
              /\ tbl' = tbl /\ cpc' = cpc
              /\ IF Holds(asg, SellerOf(r), w)
                 THEN last' = Answer("unclaim", "unclaimed")
                 ELSE asg' = asg /\ last' = Answer("unclaim", "not_found")
      ]_vars

\* seller 1 has unclaimed the first wallet: seller 2 still holds it, with
\* the notes it gave, and seller 1 still holds the second wallet
C30_Witness ==
    /\ last = Answer("unclaim", "unclaimed")
    /\ ~Holds(asg, 1, 1)
    /\ asg = {[seller |-> 2, wallet |-> 1, notes |-> 2],
              [seller |-> 1, wallet |-> 2, notes |-> 1]}

====
